---- MODULE Spec2Model ----
(***************************************************************************)
(* smallPrimes: the wheel sieve genPrimes (smallPrime/primes.py) and the   *)
(* trial-division factoring functions primeDecomposition,                  *)
(* decompCertificate and divisors (smallPrime/factor.py), which read the   *)
(* module-level prime table orderedPrimes.                                 *)
(*                                                                         *)
(* A Python dict / Counter is a function whose DOMAIN is its key set; the  *)
(* empty dict is the empty function <<>>.  Python ints are unbounded, and  *)
(* the numpy int64 values of genPrimes stay far below 2^63 for every bound *)
(* explored here, so plain integers model both.                            *)
(***************************************************************************)
EXTENDS Integers, Sequences, FiniteSets, TLC

\* Bounds of the exploration.
MaxM == 12         \* largest bound M of the loaded prime table
MaxTarget == 150   \* |N| of the numbers handed to factor.py
MaxGenN == 200     \* largest argument of a direct genPrimes call
MaxKey == 4        \* largest key of a caller-supplied decomposition
MaxMult == 2       \* largest multiplicity of a caller-supplied decomposition

VARIABLES
    M,             \* bound the prime table was generated for (picklePrimes' N)
    orderedPrimes, \* factor.py:8-9, the table loaded at import
    pc,            \* "idle" | "loop" (inside primeDecomposition's for) | "returned"
    op,            \* the function called
    target,        \* its argument N as passed by the caller
    argDecomp,     \* decompCertificate's primeDecomp argument
    argProper,     \* divisors' proper argument
    N,             \* primeDecomposition's local N (after abs, divided down)
    idx,           \* position of the for loop in orderedPrimes (1-based)
    primeDecomp,   \* primeDecomposition's local Counter
    exit,          \* how primeDecomposition left: "zero" | "shortcut" | "one" | "exhausted"
    retDecomp,     \* value returned by primeDecomposition
    retCert,       \* value returned by decompCertificate
    retList        \* value returned by divisors / genPrimes

vars == <<M, orderedPrimes, pc, op, target, argDecomp, argProper, N, idx,
          primeDecomp, exit, retDecomp, retCert, retList>>

----------------------------------------------------------------------------
\* Arithmetic helpers

Abs(x) == IF x < 0 THEN -x ELSE x

RECURSIVE Pow(_, _)
Pow(b, e) == IF e = 0 THEN 1 ELSE b * Pow(b, e - 1)

\* int(np.sqrt(N)): the floor of the square root (exact for the small N here)
Isqrt(n) == CHOOSE r \in 0..n : r * r <= n /\ (r + 1) * (r + 1) > n

\* x | 1
BitOr1(x) == IF x % 2 = 0 THEN x + 1 ELSE x

Min(S) == CHOOSE x \in S : \A y \in S : x <= y

\* sorted(S): the elements of a finite set of integers, ascending
RECURSIVE sorted(_)
sorted(S) == IF S = {} THEN <<>> ELSE <<Min(S)>> \o sorted(S \ {Min(S)})

----------------------------------------------------------------------------
\* primes.py: genPrimes

\* len of the sieve, primes.py:101.  A mutant drops the parity correction.
SieveSizeNoParity(n) == n \div 3

SieveSize(n) == n \div 3 + (IF n % 6 = 2 THEN 1 ELSE 0)

\* sieve[start::step] = False ; a start beyond the end clears nothing
SliceClear(sieve, start, step) ==
    [j \in DOMAIN sieve |->
        IF j >= start /\ (j - start) % step = 0 THEN FALSE ELSE sieve[j]]

\* the for loop of primes.py:103-110, from index i on
RECURSIVE SieveLoop(_, _, _)
SieveLoop(sieve, i, topCheck) ==
    IF i > topCheck THEN sieve
    ELSE IF ~sieve[i] THEN SieveLoop(sieve, i + 1, topCheck)
    ELSE LET k == BitOr1(3 * i + 1)
             a == k * k
             b == k * (k - 2 * (i % 2) + 4)
         IN SieveLoop(SliceClear(SliceClear(sieve, a \div 3, 2 * k),
                                 b \div 3, 2 * k),
                      i + 1, topCheck)

\* np.nonzero(sieve)[0][1:] : the indices still True, ascending, first dropped
NonzeroTail(sieve) ==
    LET nz == sorted({j \in DOMAIN sieve : sieve[j]})
    IN IF nz = <<>> THEN <<>> ELSE Tail(nz)

genPrimes(n) ==
    LET sieve0 == [j \in 0..(SieveSize(n) - 1) |-> TRUE]
        topCheck == Isqrt(n) \div 3
        sieve == SieveLoop(sieve0, 1, topCheck)
        rest == NonzeroTail(sieve)
    IN <<2, 3>> \o [j \in 1..Len(rest) |-> BitOr1(3 * rest[j] + 1)]

----------------------------------------------------------------------------
\* factor.py: primeDecomposition

\* primeDecomp[k] = v
DictSet(d, k, v) == [x \in DOMAIN d \cup {k} |-> IF x = k THEN v ELSE d[x]]

\* primeDecomp[k] += 1, m times (a Counter: a missing key counts 0;
\* no += runs when m = 0, so no key is created)
CounterAdd(d, k, m) ==
    IF m = 0 THEN d
    ELSE DictSet(d, k, (IF k \in DOMAIN d THEN d[k] ELSE 0) + m)

\* factor.py:51, the shortcut test.  A mutant uses >=.
ShortcutFiresGeq(pr, n) == pr * pr >= n

ShortcutFires(pr, n) == pr * pr > n

\* factor.py:55-59: divide n by pr while the remainder is 0;
\* <<remaining n, number of divisions>>.  A mutant divides at most once.
DivideOutOnce(n, pr, cnt) ==
    IF n % pr = 0 THEN <<n \div pr, cnt + 1>> ELSE <<n, cnt>>

RECURSIVE DivideOut(_, _, _)
DivideOut(n, pr, cnt) ==
    IF n % pr = 0 THEN DivideOut(n \div pr, pr, cnt + 1) ELSE <<n, cnt>>

\* factor.py:52: primeDecomp[N] = 1, whatever N is at that point.
\* A mutant breaks without recording.
ShortcutRecordNone(d, n) == d

ShortcutRecord(d, n) == DictSet(d, n, 1)

\* One pass of the for body (factor.py:51-63) on the locals st = [N, primeDecomp]
\* for the prime pr; brk tells which break was taken, "none" when the loop goes on.
ForBody(st, pr) ==
    IF ShortcutFires(pr, st.N)
    THEN [N |-> st.N, primeDecomp |-> ShortcutRecord(st.primeDecomp, st.N),
          brk |-> "shortcut"]
    ELSE LET r == DivideOut(st.N, pr, 0)
         IN [N |-> r[1], primeDecomp |-> CounterAdd(st.primeDecomp, pr, r[2]),
             brk |-> IF r[1] = 1 THEN "one" ELSE "none"]

\* factor.py:65 reached with the for loop run to its end: the Counter is
\* returned as it stands.  A mutant records the remaining cofactor.
ExhaustedReturnRecords(st) == DictSet(st.primeDecomp, st.N, 1)

ExhaustedReturn(st) == st.primeDecomp

\* the for loop of factor.py:50-63 from table position i on, then line 65
RECURSIVE ForLoop(_, _)
ForLoop(st, i) ==
    IF i > Len(orderedPrimes) THEN ExhaustedReturn(st)
    ELSE LET s2 == ForBody(st, orderedPrimes[i])
         IN IF s2.brk # "none" THEN s2.primeDecomp ELSE ForLoop(s2, i + 1)

\* primeDecomposition(N) as a whole (factor.py:45-65), for the functions that
\* call it.  A mutant has no N == 0 case.
primeDecompositionNoZeroCase(n) ==
    ForLoop([N |-> Abs(n), primeDecomp |-> <<>>], 1)

primeDecomposition(n) ==
    IF n = 0 THEN <<>>
    ELSE ForLoop([N |-> Abs(n), primeDecomp |-> <<>>], 1)

----------------------------------------------------------------------------
\* factor.py: decompCertificate

\* The primeDecomp argument: the default False, or a dict passed by the caller.
NoDecomp == [given |-> FALSE, d |-> <<>>]
Given(d) == [given |-> TRUE, d |-> d]

\* Python truth value of the argument (factor.py:99, "if primeDecomp"):
\* False is falsy, and so is an empty dict.
Truthy(a) == a.given /\ DOMAIN a.d # {}

\* reduce(operator.mul, map(lambda p: p**pDecomp[p], pDecomp), 1), factor.py:100
RECURSIVE ProdOver(_, _)
ProdOver(d, keys) ==
    IF keys = {} THEN 1
    ELSE LET p == Min(keys) IN Pow(p, d[p]) * ProdOver(d, keys \ {p})

Prod(d) == ProdOver(d, DOMAIN d)

decompCertificate(n, a) ==
    LET pDecomp == IF Truthy(a) THEN a.d ELSE primeDecomposition(n)
        prod == Prod(pDecomp)
    IN Abs(n) = prod

----------------------------------------------------------------------------
\* factor.py: divisors

\* factor.py:143-145: m rounds of multiplying every known divisor by pr.
\* A mutant runs one round whatever the multiplicity.
ExtendOnce(all, pr, m) ==
    IF m = 0 THEN all ELSE all \cup {f * pr : f \in all}

RECURSIVE Extend(_, _, _)
Extend(all, pr, m) ==
    IF m = 0 THEN all
    ELSE Extend(all \cup {f * pr : f \in all}, pr, m - 1)

\* factor.py:141-145: the loop over the keys.  The Counter iterates in insertion
\* order, which primeDecomposition makes ascending; the resulting set does not
\* depend on the order.
RECURSIVE DivisorLoop(_, _, _)
DivisorLoop(pd, keys, all) ==
    IF keys = {} THEN all
    ELSE LET pr == Min(keys)
         IN DivisorLoop(pd, keys \ {pr}, Extend(all, pr, pd[pr]))

divisors(n, proper) ==
    IF n = 0 THEN <<>>
    ELSE LET a == Abs(n)
             pd == primeDecomposition(a)
             allDivisors == DivisorLoop(pd, DOMAIN pd, {1})
         IN sorted(IF proper THEN allDivisors \ {1, a} ELSE allDivisors)

----------------------------------------------------------------------------
\* Inputs

Targets == (-MaxTarget)..MaxTarget

\* dicts a caller may pass to decompCertificate, the empty one included
SuppliedDecomps == UNION {[S -> 1..MaxMult] : S \in SUBSET (2..MaxKey)}

CertArgs == {NoDecomp} \cup {Given(d) : d \in SuppliedDecomps}

----------------------------------------------------------------------------
\* The state machine

\* After import of factor.py: the table of primes below M is loaded and no
\* function has been called.  picklePrimes documents N > 5.
Init ==
    /\ M \in 6..MaxM
    /\ orderedPrimes = genPrimes(M)
    /\ pc = "idle"
    /\ op = "none"
    /\ target = 0
    /\ argDecomp = NoDecomp
    /\ argProper = FALSE
    /\ N = 0
    /\ idx = 0
    /\ primeDecomp = <<>>
    /\ exit = "none"
    /\ retDecomp = <<>>
    /\ retCert = FALSE
    /\ retList = <<>>

\* genPrimes(n), primes.py:79-112
genPrimesCall(n) ==
    /\ pc = "idle"
    /\ op' = "genPrimes"
    /\ target' = n
    /\ retList' = genPrimes(n)
    /\ pc' = "returned"
    /\ UNCHANGED <<M, orderedPrimes, argDecomp, argProper, N, idx, primeDecomp,
                   exit, retDecomp, retCert>>

\* primeDecomposition(0), factor.py:45-46
primeDecompositionZero ==
    /\ pc = "idle"
    /\ op' = "primeDecomposition"
    /\ target' = 0
    /\ retDecomp' = <<>>
    /\ exit' = "zero"
    /\ pc' = "returned"
    /\ UNCHANGED <<M, orderedPrimes, argDecomp, argProper, N, idx, primeDecomp,
                   retCert, retList>>

\* primeDecomposition(t), t # 0, up to the head of the for loop, factor.py:48-50
primeDecompositionEnter(t) ==
    /\ pc = "idle"
    /\ t # 0
    /\ op' = "primeDecomposition"
    /\ target' = t
    /\ N' = Abs(t)
    /\ primeDecomp' = <<>>
    /\ idx' = 1
    /\ pc' = "loop"
    /\ UNCHANGED <<M, orderedPrimes, argDecomp, argProper, exit, retDecomp,
                   retCert, retList>>

\* one pass of the for body with the next prime of the table, factor.py:50-63;
\* a break falls through to the return of line 65
ForStep ==
    /\ pc = "loop"
    /\ idx <= Len(orderedPrimes)
    /\ LET s2 == ForBody([N |-> N, primeDecomp |-> primeDecomp], orderedPrimes[idx])
       IN /\ N' = s2.N
          /\ primeDecomp' = s2.primeDecomp
          /\ \/ /\ s2.brk = "none"
                /\ idx' = idx + 1
                /\ UNCHANGED <<pc, exit, retDecomp>>
             \/ /\ s2.brk = "shortcut"
                /\ exit' = "shortcut"
                /\ retDecomp' = s2.primeDecomp
                /\ pc' = "returned"
                /\ UNCHANGED idx
             \/ /\ s2.brk = "one"
                /\ exit' = "one"
                /\ retDecomp' = s2.primeDecomp
                /\ pc' = "returned"
                /\ UNCHANGED idx
    /\ UNCHANGED <<M, orderedPrimes, op, target, argDecomp, argProper, retCert,
                   retList>>

\* the for loop ran through the whole table without a break, factor.py:50, 65
ForExhausted ==
    /\ pc = "loop"
    /\ idx > Len(orderedPrimes)
    /\ retDecomp' = ExhaustedReturn([N |-> N, primeDecomp |-> primeDecomp])
    /\ exit' = "exhausted"
    /\ pc' = "returned"
    /\ UNCHANGED <<M, orderedPrimes, op, target, argDecomp, argProper, N, idx,
                   primeDecomp, retCert, retList>>

\* decompCertificate(t, a) called directly, factor.py:67-103
decompCertificateCall(t, a) ==
    /\ pc = "idle"
    /\ op' = "decompCertificate"
    /\ target' = t
    /\ argDecomp' = a
    /\ retCert' = decompCertificate(t, a)
    /\ pc' = "returned"
    /\ UNCHANGED <<M, orderedPrimes, argProper, N, idx, primeDecomp, exit,
                   retDecomp, retList>>

\* decompCertificate(t, primeDecomposition(t)): the caller hands the Counter it
\* just got back to decompCertificate, factor.py:67-103
decompCertificateOfResult ==
    /\ pc = "returned"
    /\ op = "primeDecomposition"
    /\ op' = "decompCertificate"
    /\ argDecomp' = Given(retDecomp)
    /\ retCert' = decompCertificate(target, Given(retDecomp))
    /\ UNCHANGED <<M, orderedPrimes, pc, target, argProper, N, idx, primeDecomp,
                   exit, retDecomp, retList>>

\* divisors(t, proper), factor.py:105-150
divisorsCall(t, proper) ==
    /\ pc = "idle"
    /\ op' = "divisors"
    /\ target' = t
    /\ argProper' = proper
    /\ retList' = divisors(t, proper)
    /\ pc' = "returned"
    /\ UNCHANGED <<M, orderedPrimes, argDecomp, N, idx, primeDecomp, exit,
                   retDecomp, retCert>>

\* The calls are made by a caller that holds no call in progress.
Idle == pc = "idle"

Next ==
    \/ Idle /\ \E n \in 1..MaxGenN : genPrimesCall(n)
    \/ primeDecompositionZero
    \/ Idle /\ \E t \in Targets : primeDecompositionEnter(t)
    \/ ForStep
    \/ ForExhausted
    \/ Idle /\ \E t \in Targets, a \in CertArgs : decompCertificateCall(t, a)
    \/ decompCertificateOfResult
    \/ Idle /\ \E t \in Targets, proper \in BOOLEAN : divisorsCall(t, proper)

Spec == Init /\ [][Next]_vars

----------------------------------------------------------------------------
\* Number theory the claims are stated in (independent of the code above)

IsPrime(p) == p > 1 /\ \A d \in 2..(p - 1) : p % d # 0

PrimeFactors(n) == {p \in 2..n : n % p = 0 /\ IsPrime(p)}

Divisors(n) == {d \in 1..n : n % d = 0}

Range(s) == {s[i] : i \in DOMAIN s}

StrictlyAscending(s) == \A i \in 1..(Len(s) - 1) : s[i] < s[i + 1]

\* the call whose state this is has returned
Returned(f) == pc = "returned" /\ op = f

TypeOK ==
    /\ pc \in {"idle", "loop", "returned"}
    /\ op \in {"none", "genPrimes", "primeDecomposition", "decompCertificate", "divisors"}
    /\ exit \in {"none", "zero", "shortcut", "one", "exhausted"}
    /\ retCert \in BOOLEAN
    /\ Range(orderedPrimes) = {p \in 2..(M - 1) : IsPrime(p)}
    /\ StrictlyAscending(orderedPrimes)
    /\ Returned("primeDecomposition") => retDecomp = primeDecomposition(target)

LargestPrimeFactor(n) ==
    IF PrimeFactors(n) = {} THEN 0
    ELSE CHOOSE p \in PrimeFactors(n) : \A q \in PrimeFactors(n) : q <= p

TablePrimes == Range(orderedPrimes)

\* the largest prime of the table
TableMax == orderedPrimes[Len(orderedPrimes)]

\* n with every prime factor smaller than p divided out completely
StripBelow(n, p) ==
    n \div (CHOOSE c \in Divisors(n) :
                /\ \A q \in PrimeFactors(c) : q < p
                /\ \A q \in PrimeFactors(n \div c) : q >= p)

\* Trial division over the primes below M cannot finish n: some prime factor
\* of n is missing from the table, and what is left of n when the last table
\* prime is reached is at least that prime's square, so the shortcut of
\* factor.py:51 never fires.
BeyondTable(n) ==
    /\ \E p \in PrimeFactors(n) : p >= M
    /\ StripBelow(n, TableMax) >= TableMax * TableMax

\* every key of d is a prime whose exact multiplicity in n is its value
ExactEntries(d, n) ==
    \A p \in DOMAIN d :
        /\ IsPrime(p)
        /\ d[p] >= 1
        /\ n % Pow(p, d[p]) = 0
        /\ n % Pow(p, d[p] + 1) # 0

\* decompCertificate was called without a decomposition
CertifiedDefault == Returned("decompCertificate") /\ ~argDecomp.given

\* decompCertificate was handed the Counter primeDecomposition had just returned
CertifiedResult == Returned("decompCertificate") /\ exit # "none"

----------------------------------------------------------------------------
\* The claims

\* C1: for N > 5, genPrimes(N) is strictly ascending and its elements are
\* exactly the primes p with 2 <= p < N.
C1_GenPrimesExact ==
    (Returned("genPrimes") /\ target > 5) =>
        /\ StrictlyAscending(retList)
        /\ Range(retList) = {p \in 2..(target - 1) : IsPrime(p)}

C1_Witness ==
    /\ Returned("genPrimes")
    /\ target = 50
    /\ retList = <<2, 3, 5, 7, 11, 13, 17, 19, 23, 29, 31, 37, 41, 43, 47>>

\* C2: with the table of all primes below M, a nonzero target whose prime
\* factors are all in the table is certified: decompCertificate of the target,
\* with the decomposition primeDecomposition returned or with none, is True,
\* and the product of p^m over the returned decomposition is |target|.
C2_CertifiedWithinTable ==
    /\ (CertifiedResult /\ target # 0
            /\ PrimeFactors(Abs(target)) \subseteq TablePrimes) =>
                (retCert /\ Prod(retDecomp) = Abs(target))
    /\ (CertifiedDefault /\ target # 0
            /\ PrimeFactors(Abs(target)) \subseteq TablePrimes) => retCert

C2_Witness ==
    /\ CertifiedResult
    /\ target = -60
    /\ retDecomp = (2 :> 2) @@ (3 :> 1) @@ (5 :> 1)
    /\ retCert

\* C3: divisors(0, proper) is empty; for a nonzero N whose decomposition is
\* certified, divisors(N, False) lists exactly the positive divisors of |N| in
\* strictly ascending order and divisors(N, True) the same without 1 and |N|.
C3_DivisorsExact ==
    Returned("divisors") =>
        IF target = 0 THEN retList = <<>>
        ELSE (\/ PrimeFactors(Abs(target)) \subseteq TablePrimes
              \/ decompCertificate(target, NoDecomp)) =>
                /\ StrictlyAscending(retList)
                /\ Range(retList) =
                     IF argProper
                     THEN Divisors(Abs(target)) \ {1, Abs(target)}
                     ELSE Divisors(Abs(target))

C3_Witness ==
    /\ Returned("divisors")
    /\ target = 36
    /\ argProper
    /\ retList = <<2, 3, 4, 6, 9, 12, 18>>

C5_UsesSuppliedDecomp ==
    (Returned("decompCertificate") /\ argDecomp.given) =>
        (retCert <=> Prod(argDecomp.d) = Abs(target))

\* C6 as stated: for 1 <= N <= 5, genPrimes(N) returns exactly the primes below
\* N and no element >= N (the code has no path that rejects the input).
C6_SmallBoundTable ==
    (Returned("genPrimes") /\ target <= 5) =>
        /\ \A i \in DOMAIN retList : retList[i] < target
        /\ Range(retList) = {p \in 2..(target - 1) : IsPrime(p)}

\* C7 as stated: for every nonzero target, 1 and -1 included, every key of the
\* returned decomposition is prime and every value is a positive integer; 1 is
\* never a key.
C7_KeysPrime ==
    (Returned("primeDecomposition") /\ target # 0) =>
        \A k \in DOMAIN retDecomp : IsPrime(k) /\ retDecomp[k] >= 1

\* C8 as stated: when the for loop runs through the whole table, the remaining
\* cofactor n > 1 is in the returned decomposition with multiplicity 1.
C8_CofactorRecorded ==
    (pc = "returned" /\ exit = "exhausted") =>
        (N \in DOMAIN retDecomp /\ retDecomp[N] = 1)

\* C8 amended: when the for loop runs through the whole table, the remaining
\* cofactor n > 1 is not recorded: the returned decomposition holds table
\* primes only and its product is |target| / n.
C8_CofactorDropped ==
    (pc = "returned" /\ exit = "exhausted") =>
        /\ N > 1
        /\ N \notin DOMAIN retDecomp
        /\ DOMAIN retDecomp \subseteq TablePrimes
        /\ Prod(retDecomp) * N = Abs(target)

C8_Witness ==
    /\ Returned("primeDecomposition")
    /\ exit = "exhausted"
    /\ M = 8
    /\ target = 77
    /\ N = 11
    /\ retDecomp = (7 :> 1)

\* C9: for |target| >= 2, certified or not, at the head of every iteration of
\* the for loop the remaining n times the product of the recorded p^m is
\* |target|, and every entry (p, m) of the loop's Counter and of the returned
\* decomposition has p prime, p^m dividing |target| and p^(m+1) not.
C9_NoWrongFactor ==
    (op = "primeDecomposition" /\ Abs(target) >= 2) =>
        /\ pc = "loop" =>
            /\ N * Prod(primeDecomp) = Abs(target)
            /\ ExactEntries(primeDecomp, Abs(target))
        /\ pc = "returned" => ExactEntries(retDecomp, Abs(target))

C9_Witness ==
    /\ Returned("primeDecomposition")
    /\ M = 6
    /\ target = 74
    /\ exit = "exhausted"
    /\ retDecomp = (2 :> 1)

\* C10: primeDecomposition(0) is the empty decomposition, and
\* decompCertificate(0) is False without a decomposition and with the empty one.
C10_ZeroNeverCertified ==
    /\ (Returned("primeDecomposition") /\ target = 0) => retDecomp = <<>>
    /\ (Returned("decompCertificate") /\ target = 0
            /\ (~argDecomp.given \/ argDecomp.d = <<>>)) => ~retCert

C10_Witness ==
    /\ Returned("decompCertificate")
    /\ target = 0
    /\ argDecomp = Given(<<>>)
    /\ ~retCert

====
